---- MODULE Spec2Model ----
(***************************************************************************)
(* The Intcode virtual machine of src/main.rs (struct VM and its methods)  *)
(* as a state machine.  Every VM field is a variable, indexed by the VM    *)
(* instance that owns it; one action per opcode handler; one cycle of the  *)
(* loop of VM::run is one step.  A Rust panic ends the process: it is      *)
(* recorded in panic[self] and disables every further action of that VM.   *)
(***************************************************************************)
EXTENDS Integers, Sequences, FiniteSets, TLC

VARIABLES
    program,    \* VM.program : Vec<i32>, the tape (cell i is program[self][i+1])
    ip,         \* VM.ip : usize
    in_p,       \* VM.in_p : i32, cursor into inputs
    out_p,      \* VM.out_p : i32, number of outputs pushed
    halted,     \* VM.halted : bool
    inputs,     \* VM.inputs : Vec<i32>
    outputs,    \* VM.outputs : Vec<i32>
    panic,      \* "" while the process lives, else the message of the panic that ended it
    overflow_checks, \* the build's -C overflow-checks (on in the dev profile, off in release)
    runs,       \* number of calls of VM::run made by the owner of the VM
    executing,  \* the last "Executing: {opcode} ip={ip} {modes}" line exec_inst printed
    cycles      \* number of exec_inst calls made so far (bounds the exploration)

vars ==
    <<program, ip, in_p, out_p, halted, inputs, outputs, panic, overflow_checks,
      runs, executing, cycles>>

vmFields == <<program, ip, in_p, out_p, halted, inputs, outputs>>

(***************************************************************************)
(* Bounds of the exploration.                                              *)
(***************************************************************************)
MaxLen == 4
MaxInputs == 1
MaxCycles == 6
MaxRuns == 2
MaxTwinLen == 3
MaxModePart == 1200

(***************************************************************************)
(* Program constants (src/main.rs:12-23).                                  *)
(***************************************************************************)
MODE_REF == 0
MODE_VAL == 1

I_ADD == [opcode |-> 1, steps_next |-> 4]
I_MUL == [opcode |-> 2, steps_next |-> 4]
I_IN == [opcode |-> 3, steps_next |-> 2]
I_OUT == [opcode |-> 4, steps_next |-> 2]
I_JT == [opcode |-> 5, steps_next |-> 3]
I_JF == [opcode |-> 6, steps_next |-> 3]
I_LT == [opcode |-> 7, steps_next |-> 4]
I_EQ == [opcode |-> 8, steps_next |-> 4]
I_HALT == [opcode |-> 99, steps_next |-> 0]

KnownOpcodes == {1, 2, 3, 4, 5, 6, 7, 8, 99}

I32Min == -2147483647 - 1
I32Max == 2147483647
InI32(v) == v >= I32Min /\ v <= I32Max

(***************************************************************************)
(* Rust's integer `/` and `%` truncate toward zero: the remainder takes    *)
(* the sign of the dividend.  (TLA+'s \div and % round toward minus        *)
(* infinity.)  The divisors in main.rs are the literals 10 and 100.        *)
(***************************************************************************)
RustRem(a, b) == IF a >= 0 THEN a % b ELSE -((-a) % b)
RustDiv(a, b) == IF a >= 0 THEN a \div b ELSE -((-a) \div b)

(***************************************************************************)
(* The panics of main.rs.  Indexing a Vec out of bounds panics with        *)
(* "index out of bounds: the len is .. but the index is .."; the model     *)
(* keeps which Vec was indexed.                                            *)
(***************************************************************************)
PanicIllegalMemory == "Illegal memory access"
PanicUnknownOpcode == "Uknown opcode"
PanicUnknownMode == "Unknown param mode"
PanicJumpOut == "Trying to jump out of the program"
PanicProgramIndex == "index out of bounds: program"
PanicInputsIndex == "index out of bounds: inputs"
PanicAddOverflow == "attempt to add with overflow"
PanicMulOverflow == "attempt to multiply with overflow"

\* The outcome of an expression that may panic: the value, or the panic message.
Ok(v) == [err |-> "", val |-> v]
Err(msg) == [err |-> msg, val |-> 0]

\* The first panic, in evaluation order, of a sequence of outcomes ("" when none).
RECURSIVE FirstErr(_)
FirstErr(rs) ==
    IF rs = <<>> THEN ""
    ELSE IF Head(rs).err # "" THEN Head(rs).err
    ELSE FirstErr(Tail(rs))

(***************************************************************************)
(* ParaModes (src/main.rs:69-97).                                          *)
(***************************************************************************)
\* Mutant: the third mode keeps the digits above it (no final % 10).
param_modes_leaky(instr) ==
    LET param_part == RustDiv(instr - RustRem(instr, 100), 100)
    IN  << RustRem(param_part, 10),
           RustRem(RustDiv(param_part - RustRem(param_part, 10), 10), 10),
           RustDiv(param_part - RustRem(param_part, 100), 100) >>

param_modes(instr) ==
    LET param_part == RustDiv(instr - RustRem(instr, 100), 100)
    IN  << RustRem(param_part, 10),
           RustRem(RustDiv(param_part - RustRem(param_part, 10), 10), 10),
           RustRem(RustDiv(param_part - RustRem(param_part, 100), 100), 10) >>

\* ParaModes::mode: n is always the literal 1, 2 or 3 at the call sites.
mode(modes, n) == modes[n]

\* fetch_instr's `instruction % 100`.
opcode_of(instr) == RustRem(instr, 100)

(***************************************************************************)
(* VM::new (src/main.rs:140-150).                                          *)
(***************************************************************************)
new(prog, inps) ==
    [program |-> prog, ip |-> 0, in_p |-> 0, out_p |-> 0, halted |-> FALSE,
     inputs |-> inps, outputs |-> <<>>]

NoLine == [opcode |-> 0, ip |-> 0, modes |-> <<0, 0, 0>>]

(***************************************************************************)
(* Reads of the tape.  `self.program[i]` with i : usize panics unless      *)
(* i < len.  An i32 cast with `as usize` keeps a non-negative value and    *)
(* turns a negative one into a value of at least 2^64 - 2^31, beyond any   *)
(* Vec length: ProgramIndex takes the value before the cast and treats a   *)
(* negative one as out of bounds.                                          *)
(***************************************************************************)
ProgramLen(self) == Len(program[self])

ProgramIndex(self, i) ==
    IF i >= 0 /\ i < ProgramLen(self)
    THEN Ok(program[self][i + 1])
    ELSE Err(PanicProgramIndex)

\* Mutant: a read outside the tape yields 0 instead of panicking.
read_mem_zero(self, addr) ==
    IF addr >= 0 /\ addr < ProgramLen(self)
    THEN Ok(program[self][addr + 1])
    ELSE Ok(0)

read_mem(self, addr) ==
    IF addr < 0 THEN Err(PanicIllegalMemory)
    ELSE ProgramIndex(self, addr)

\* write_mem: the panic it ends in ("" when it writes), and the tape it leaves.
write_mem_err(self, addr) ==
    IF addr < 0 THEN PanicIllegalMemory
    ELSE IF addr >= ProgramLen(self) THEN PanicProgramIndex
    ELSE ""

write_mem(self, addr, value) == [program[self] EXCEPT ![addr + 1] = value]

fetch_arg(self, n) == ProgramIndex(self, ip[self] + n)

\* Mutant: every mode other than MODE_VAL is treated as a reference.
fetch_arg_value_lenient(self, n, m) ==
    LET arg == ProgramIndex(self, ip[self] + n)
    IN  IF arg.err # "" THEN arg
        ELSE IF m = MODE_VAL THEN arg
        ELSE read_mem(self, arg.val)

\* Mutant: the two modes are swapped (0 taken as the literal, 1 as the reference).
fetch_arg_value_swapped(self, n, m) ==
    LET arg == ProgramIndex(self, ip[self] + n)
    IN  IF arg.err # "" THEN arg
        ELSE IF m = MODE_REF THEN arg
        ELSE IF m = MODE_VAL THEN read_mem(self, arg.val)
        ELSE Err(PanicUnknownMode)

fetch_arg_value(self, n, m) ==
    LET arg == ProgramIndex(self, ip[self] + n)
    IN  IF arg.err # "" THEN arg
        ELSE IF m = MODE_VAL THEN arg
        ELSE IF m = MODE_REF THEN read_mem(self, arg.val)
        ELSE Err(PanicUnknownMode)

\* Mutant: an unknown opcode is handed to exec_inst instead of panicking.
fetch_instr_any(self) == ProgramIndex(self, ip[self])

\* fetch_instr: the instruction word at ip, or the panic of fetching it.
fetch_instr(self) ==
    LET instruction == ProgramIndex(self, ip[self])
    IN  IF instruction.err # "" THEN instruction
        ELSE IF opcode_of(instruction.val) \in KnownOpcodes THEN instruction
        ELSE Err(PanicUnknownOpcode)

\* Mutant: step ignores n and moves to the next word.
step_one(self, n) == ip[self] + 1

\* step(n): the new ip.
step(self, n) == ip[self] + n

\* goto(dest): the panic it ends in ("" when it jumps); the new ip is dest.
goto_err(dest) == IF dest < 0 THEN PanicJumpOut ELSE ""

\* Mutant: one input cursor shared by every VM (a static, not a field).
read_input_shared(self) ==
    IF in_p[1] < Len(inputs[self])
    THEN Ok(inputs[self][in_p[1] + 1])
    ELSE Err(PanicInputsIndex)

\* Mutant: reading past the end of the inputs yields 0 instead of panicking.
read_input_default(self) ==
    IF in_p[self] < Len(inputs[self])
    THEN Ok(inputs[self][in_p[self] + 1])
    ELSE Ok(0)

\* read_input: inputs[in_p as usize]; in_p is never negative.
read_input(self) ==
    IF in_p[self] < Len(inputs[self])
    THEN Ok(inputs[self][in_p[self] + 1])
    ELSE Err(PanicInputsIndex)

(***************************************************************************)
(* The opcode handlers (src/main.rs:228-314).  Each is the whole Rust      *)
(* function: the operand fetches in source order, the first panic among    *)
(* them if any, else the writes to the VM's fields.                        *)
(***************************************************************************)
VMs == DOMAIN program

\* The ParaModes fetch_instr builds from the instruction word at ip.
Modes(self) == param_modes(program[self][ip[self] + 1])

Abort(self, msg) == panic' = [panic EXCEPT ![self] = msg]

(***************************************************************************)
(* i32 arithmetic.  `a + b` and `a * b` on i32 panic when the result       *)
(* leaves the i32 range if the build has overflow checks, and wrap modulo  *)
(* 2^32 if it has not.  Every intermediate value below stays inside the    *)
(* i32 range.                                                              *)
(***************************************************************************)
\* a + b lies in the i32 range.
AddFits(a, b) ==
    IF b >= 0 THEN a <= I32Max - b ELSE a >= I32Min - b

\* i32::wrapping_add.
wrapping_add(a, b) ==
    IF AddFits(a, b) THEN a + b
    ELSE IF b >= 0 THEN ((a + I32Min) + b) + I32Min
    ELSE ((a - I32Min) + b) - I32Min

\* i32::wrapping_mul, by doubling: a * b = 2 * (a * (b div 2)) + a * (b mod 2).
RECURSIVE wrapping_mul(_, _)
wrapping_mul(a, b) ==
    IF b = 0 THEN 0
    ELSE IF b = -1 THEN (IF a = I32Min THEN I32Min ELSE -a)
    ELSE LET half == wrapping_mul(a, b \div 2)
             twice == wrapping_add(half, half)
         IN  IF b % 2 = 1 THEN wrapping_add(twice, a) ELSE twice

Abs(a) == IF a >= 0 THEN a ELSE -a

\* a * b lies in the i32 range: |a| * |b| <= 2^31 - 1, or <= 2^31 for a negative product.
MulFits(a, b) ==
    IF a = 0 \/ b = 0 THEN TRUE
    ELSE IF a = I32Min THEN b = 1
    ELSE IF b = I32Min THEN a = 1
    ELSE IF Abs(a) = 1 \/ Abs(b) = 1 THEN TRUE
    ELSE IF (a > 0) = (b > 0) THEN Abs(a) <= I32Max \div Abs(b)
    ELSE Abs(a) <= (I32Max \div Abs(b)) + (IF I32Max % Abs(b) = Abs(b) - 1 THEN 1 ELSE 0)

Add(a, b) == wrapping_add(a, b)
Mul(a, b) == wrapping_mul(a, b)
Lt(a, b) == IF a < b THEN 1 ELSE 0
Eq(a, b) == IF a = b THEN 1 ELSE 0

\* Mutant: MUL adds, as the "+" of its trace line suggests.
Result_sum(instr, a, b) ==
    CASE instr = I_ADD -> Add(a, b)
      [] instr = I_MUL -> Add(a, b)
      [] instr = I_LT -> Lt(a, b)
      [] instr = I_EQ -> Eq(a, b)

\* The value the handler of instr stores.
Result(instr, a, b) ==
    CASE instr = I_ADD -> Add(a, b)
      [] instr = I_MUL -> Mul(a, b)
      [] instr = I_LT -> Lt(a, b)
      [] instr = I_EQ -> Eq(a, b)

\* The panic of computing that value ("" when there is none).
overflow_err(instr, a, b) ==
    IF ~overflow_checks THEN ""
    ELSE IF instr = I_ADD /\ ~AddFits(a, b) THEN PanicAddOverflow
    ELSE IF instr = I_MUL /\ ~MulFits(a, b) THEN PanicMulOverflow
    ELSE ""

\* Mutant: the destination is resolved by its mode like the other operands.
store_by_mode(self, modes, before, instr) ==
    LET param1 == fetch_arg_value(self, 1, mode(modes, 1))
        param2 == fetch_arg_value(self, 2, mode(modes, 2))
        dest == fetch_arg_value(self, 3, mode(modes, 3))
        e == FirstErr(before \o <<param1, param2, dest>>)
        err == IF e # "" THEN e
               ELSE IF overflow_err(instr, param1.val, param2.val) # ""
               THEN overflow_err(instr, param1.val, param2.val)
               ELSE write_mem_err(self, dest.val)
    IN  IF err # ""
        THEN /\ Abort(self, err)
             /\ UNCHANGED <<vmFields, runs>>
        ELSE /\ program' = [program EXCEPT
                    ![self] = write_mem(self, dest.val, Result(instr, param1.val, param2.val))]
             /\ ip' = [ip EXCEPT ![self] = step(self, instr.steps_next)]
             /\ UNCHANGED <<in_p, out_p, halted, inputs, outputs, panic, runs>>

\* The common shape of i_add, i_mul, i_lt, i_eq: `before` are the fetches the
\* handler makes ahead of the operand values (i_mul's adr1, adr2).
store(self, modes, before, instr) ==
    LET param1 == fetch_arg_value(self, 1, mode(modes, 1))
        param2 == fetch_arg_value(self, 2, mode(modes, 2))
        dest == fetch_arg(self, 3)
        e == FirstErr(before \o <<param1, param2, dest>>)
        err == IF e # "" THEN e
               ELSE IF overflow_err(instr, param1.val, param2.val) # ""
               THEN overflow_err(instr, param1.val, param2.val)
               ELSE write_mem_err(self, dest.val)
    IN  IF err # ""
        THEN /\ Abort(self, err)
             /\ UNCHANGED <<vmFields, runs>>
        ELSE /\ program' = [program EXCEPT
                    ![self] = write_mem(self, dest.val, Result(instr, param1.val, param2.val))]
             /\ ip' = [ip EXCEPT ![self] = step(self, instr.steps_next)]
             /\ UNCHANGED <<in_p, out_p, halted, inputs, outputs, panic, runs>>

i_add(self, modes) == store(self, modes, <<>>, I_ADD)

i_mul(self, modes) ==
    store(self, modes, <<fetch_arg(self, 1), fetch_arg(self, 2)>>, I_MUL)

i_lt(self, modes) == store(self, modes, <<>>, I_LT)

i_eq(self, modes) == store(self, modes, <<>>, I_EQ)

i_input(self) ==
    LET adr == fetch_arg(self, 1)
        input == read_input(self)
        e == FirstErr(<<adr, input>>)
    IN  IF e # ""
        THEN /\ Abort(self, e)
             /\ UNCHANGED <<vmFields, runs>>
        ELSE IF write_mem_err(self, adr.val) # ""
        THEN \* read_input has already advanced the cursor when write_mem panics
             /\ in_p' = [in_p EXCEPT ![self] = @ + 1]
             /\ Abort(self, write_mem_err(self, adr.val))
             /\ UNCHANGED <<program, ip, out_p, halted, inputs, outputs, runs>>
        ELSE /\ in_p' = [in_p EXCEPT ![self] = @ + 1]
             /\ program' = [program EXCEPT ![self] = write_mem(self, adr.val, input.val)]
             /\ ip' = [ip EXCEPT ![self] = @ + I_IN.steps_next]
             /\ UNCHANGED <<out_p, halted, inputs, outputs, panic, runs>>

\* Mutant: OUT resolves its operand by the declared mode.
i_output_by_mode(self) ==
    LET output == fetch_arg_value(self, 1, mode(Modes(self), 1))
    IN  IF output.err # ""
        THEN /\ Abort(self, output.err)
             /\ UNCHANGED <<vmFields, runs>>
        ELSE /\ outputs' = [outputs EXCEPT ![self] = Append(@, output.val)]
             /\ out_p' = [out_p EXCEPT ![self] = @ + 1]
             /\ ip' = [ip EXCEPT ![self] = @ + I_OUT.steps_next]
             /\ UNCHANGED <<program, in_p, halted, inputs, panic, runs>>

\* Mutant: OUT pushes the output but does not count it in out_p.
i_output_uncounted(self) ==
    LET adr == ProgramIndex(self, ip[self] + 1)
        output == IF adr.err # "" THEN adr ELSE ProgramIndex(self, adr.val)
    IN  IF output.err # ""
        THEN /\ Abort(self, output.err)
             /\ UNCHANGED <<vmFields, runs>>
        ELSE /\ outputs' = [outputs EXCEPT ![self] = Append(@, output.val)]
             /\ ip' = [ip EXCEPT ![self] = @ + I_OUT.steps_next]
             /\ UNCHANGED <<program, in_p, out_p, halted, inputs, panic, runs>>

\* Mutant: OUT pushes its operand word, not the cell the word names.
i_output_immediate(self) ==
    LET output == ProgramIndex(self, ip[self] + 1)
    IN  IF output.err # ""
        THEN /\ Abort(self, output.err)
             /\ UNCHANGED <<vmFields, runs>>
        ELSE /\ outputs' = [outputs EXCEPT ![self] = Append(@, output.val)]
             /\ out_p' = [out_p EXCEPT ![self] = @ + 1]
             /\ ip' = [ip EXCEPT ![self] = @ + I_OUT.steps_next]
             /\ UNCHANGED <<program, in_p, halted, inputs, panic, runs>>

i_output(self) ==
    LET adr == ProgramIndex(self, ip[self] + 1)
        output == IF adr.err # "" THEN adr ELSE ProgramIndex(self, adr.val)
    IN  IF output.err # ""
        THEN /\ Abort(self, output.err)
             /\ UNCHANGED <<vmFields, runs>>
        ELSE /\ outputs' = [outputs EXCEPT ![self] = Append(@, output.val)]
             /\ out_p' = [out_p EXCEPT ![self] = @ + 1]
             /\ ip' = [ip EXCEPT ![self] = @ + I_OUT.steps_next]
             /\ UNCHANGED <<program, in_p, halted, inputs, panic, runs>>

\* Mutant: the two tests are exchanged.
Jump_inverted(instr, param) == IF instr = I_JT THEN param = 0 ELSE param # 0

\* `let jump = param != 0` of i_jt, `let jump = param == 0` of i_jf.
Jump(instr, param) == IF instr = I_JT THEN param # 0 ELSE param = 0

\* Mutant: the target is the raw second operand word, whatever its mode.
jump_if_raw(self, modes, instr) ==
    LET param == fetch_arg_value(self, 1, mode(modes, 1))
        dest == fetch_arg(self, 2)
        e == FirstErr(<<param, dest>>)
        err == IF e # "" THEN e
               ELSE IF Jump(instr, param.val) THEN goto_err(dest.val)
               ELSE ""
    IN  IF err # ""
        THEN /\ Abort(self, err)
             /\ UNCHANGED <<vmFields, runs>>
        ELSE /\ ip' = [ip EXCEPT ![self] =
                    IF Jump(instr, param.val) THEN dest.val ELSE step(self, I_JT.steps_next)]
             /\ UNCHANGED <<program, in_p, out_p, halted, inputs, outputs, panic, runs>>

\* The common shape of i_jt and i_jf; both step by I_JT.steps_next.
jump_if(self, modes, instr) ==
    LET param == fetch_arg_value(self, 1, mode(modes, 1))
        dest == fetch_arg_value(self, 2, mode(modes, 2))
        e == FirstErr(<<param, dest>>)
        err == IF e # "" THEN e
               ELSE IF Jump(instr, param.val) THEN goto_err(dest.val)
               ELSE ""
    IN  IF err # ""
        THEN /\ Abort(self, err)
             /\ UNCHANGED <<vmFields, runs>>
        ELSE /\ ip' = [ip EXCEPT ![self] =
                    IF Jump(instr, param.val) THEN dest.val ELSE step(self, I_JT.steps_next)]
             /\ UNCHANGED <<program, in_p, out_p, halted, inputs, outputs, panic, runs>>

i_jt(self, modes) == jump_if(self, modes, I_JT)

i_jf(self, modes) == jump_if(self, modes, I_JF)

i_halt(self) ==
    /\ halted' = [halted EXCEPT ![self] = TRUE]
    /\ UNCHANGED <<program, ip, in_p, out_p, inputs, outputs, panic, runs>>

(***************************************************************************)
(* exec_inst (src/main.rs:316-331): fetch_instr, the "Executing" line,     *)
(* then the handler of the opcode.  fetch_instr panics on an unknown       *)
(* opcode, so the trailing "Unknown instruction .. halting" of exec_inst   *)
(* is never reached.                                                       *)
(***************************************************************************)
InLoop(self) ==
    /\ runs[self] >= 1
    /\ ~halted[self]
    /\ panic[self] = ""
    /\ cycles[self] < MaxCycles

Counted(self) == cycles' = [cycles EXCEPT ![self] = @ + 1]

Printed(self) ==
    executing' = [executing EXCEPT ![self] =
        [opcode |-> opcode_of(program[self][ip[self] + 1]),
         ip |-> ip[self],
         modes |-> param_modes(program[self][ip[self] + 1])]]

Fetched(self) ==
    /\ InLoop(self)
    /\ fetch_instr(self).err = ""
    /\ Printed(self)
    /\ Counted(self)
    /\ UNCHANGED overflow_checks

Dispatch(self, opcode) ==
    /\ Fetched(self)
    /\ opcode_of(fetch_instr(self).val) = opcode

fetch_panic(self) ==
    /\ InLoop(self)
    /\ fetch_instr(self).err # ""
    /\ Abort(self, fetch_instr(self).err)
    /\ Counted(self)
    /\ UNCHANGED <<vmFields, runs, executing, overflow_checks>>

\* `if opcode == 99` and the fall-through after the eight other tests both call i_halt.
exec_halt(self) ==
    /\ Fetched(self)
    /\ opcode_of(fetch_instr(self).val) \notin 1..8
    /\ i_halt(self)
exec_add(self) == Dispatch(self, 1) /\ i_add(self, Modes(self))
exec_mul(self) == Dispatch(self, 2) /\ i_mul(self, Modes(self))
exec_input(self) == Dispatch(self, 3) /\ i_input(self)
exec_output(self) == Dispatch(self, 4) /\ i_output(self)
exec_jt(self) == Dispatch(self, 5) /\ i_jt(self, Modes(self))
exec_jf(self) == Dispatch(self, 6) /\ i_jf(self, Modes(self))
exec_lt(self) == Dispatch(self, 7) /\ i_lt(self, Modes(self))
exec_eq(self) == Dispatch(self, 8) /\ i_eq(self, Modes(self))

exec_inst(self) ==
    \/ fetch_panic(self)
    \/ exec_halt(self)
    \/ exec_add(self)
    \/ exec_mul(self)
    \/ exec_input(self)
    \/ exec_output(self)
    \/ exec_jt(self)
    \/ exec_jf(self)
    \/ exec_lt(self)
    \/ exec_eq(self)

(***************************************************************************)
(* run (src/main.rs:337-345): resets ip to 0 and loops while not halted.   *)
(* The action is the entry into run; each pass of its loop is an exec_inst *)
(* step, and the loop is left when halted is set or a panic ends the       *)
(* process.  run is a method of VM: its owner may call it again once an    *)
(* earlier call has returned.                                              *)
(***************************************************************************)
run(self) ==
    /\ runs[self] < MaxRuns
    /\ panic[self] = ""
    /\ runs[self] = 0 \/ halted[self]
    /\ ip' = [ip EXCEPT ![self] = 0]
    /\ runs' = [runs EXCEPT ![self] = @ + 1]
    /\ UNCHANGED <<program, in_p, out_p, halted, inputs, outputs, panic, executing, cycles,
                   overflow_checks>>

(***************************************************************************)
(* The initial tapes and input sequences.  The first cell is drawn from    *)
(* the instruction words, the others from the operands (which hold the     *)
(* opcodes a later cycle can reach); Examples are the programs of main's   *)
(* comments and of the documentation.                                      *)
(***************************************************************************)
InstrWords ==
    {1, 2, 3, 4, 5, 6, 7, 8, 99}
    \cup {0, 77, -1}
    \cup {101, 1001, 1101, 1002, 105, 1005, 1105, 1106, 1107, 1108}
    \cup {103, 104, 204}
    \cup {201, 2001, 205, 2106, 299}
    \cup {10001, 11101, 20002, 10007}
    \cup {100001}

Operands == {-1, 0, 1, 4, 99}

InputVals == {0, 5}

Examples ==
    { <<1, 0, 0, 0, 99>>,
      <<2, 3, 0, 3, 99>>,
      <<3, 0, 4, 0, 99>>,
      <<1002, 4, 3, 4, 33>>,
      <<3, 0, 3, 1, 99>>,
      <<4, 0, 3, 0, 99>>,
      <<3, 0, 4, 0, 3, 0>>,
      <<1105, 1, 0>>,
      <<1106, 0, 3, 1105, 1, 0>>,
      <<3, 12, 6, 12, 15, 1, 13, 14, 13, 4, 13, 99, -1, 0, 1, 9>>,
      <<3, 3, 1105, -1, 9, 1101, 0, 0, 12, 4, 12, 99, 1>> }

TapesUpTo(n) ==
    UNION { { <<w>> \o t : w \in InstrWords, t \in [1..k -> Operands] } : k \in 0..(n - 1) }

InputSeqs == UNION { [1..k -> InputVals] : k \in 0..MaxInputs }

\* Programs whose arithmetic reaches the ends of the i32 range or leaves it.
Wide ==
    { <<1101, I32Max, 1, 0, 99>>,
      <<1101, I32Max - 1, 1, 0, 99>>,
      <<1101, I32Min, -1, 0, 99>>,
      <<1102, 65536, 65536, 0, 99>>,
      <<1102, 46341, 46341, 0, 99>>,
      <<1102, 65536, -32768, 0, 99>>,
      <<1102, I32Min, -1, 0, 99>>,
      <<2, 5, 5, 0, 99, 65536>>,
      <<1107, I32Min, I32Max, 0, 99>>,
      <<1108, I32Max, I32Max, 0, 99>>,
      <<1101, I32Max, 1, 9, 99>>,
      <<1102, I32Max, 2, -1, 99>> }

\* The build profiles: with overflow checks (dev) and without (release).
Dev == {TRUE}
Profiles == BOOLEAN

\* Every VM of ids is constructed by VM::new from the same tape and inputs,
\* in a process built with one of the profiles.
Constructed(ids, tapes, inputSeqs, profiles) ==
    \E t \in tapes, inp \in inputSeqs :
        /\ overflow_checks \in profiles
        /\ program = [v \in ids |-> new(t, inp).program]
        /\ ip = [v \in ids |-> new(t, inp).ip]
        /\ in_p = [v \in ids |-> new(t, inp).in_p]
        /\ out_p = [v \in ids |-> new(t, inp).out_p]
        /\ halted = [v \in ids |-> new(t, inp).halted]
        /\ inputs = [v \in ids |-> new(t, inp).inputs]
        /\ outputs = [v \in ids |-> new(t, inp).outputs]
        /\ panic = [v \in ids |-> ""]
        /\ runs = [v \in ids |-> 0]
        /\ executing = [v \in ids |-> NoLine]
        /\ cycles = [v \in ids |-> 0]

\* main's first commented program, <<3, 0, 4, 0, 99>>, is also started on inputs
\* beyond InputVals: the opcodes, the ends of the i32 range, negative values.
Echo == <<3, 0, 4, 0, 99>>

EchoInputs == {I32Min, -99, -1, 1, 3, 4, 99, 104, 1105, I32Max}

Init ==
    \/ Constructed({1}, TapesUpTo(MaxLen) \cup Examples, InputSeqs, Profiles)
    \/ Constructed({1}, {Echo}, { <<n>> : n \in EchoInputs }, Profiles)
    \/ Constructed({1}, Wide, InputSeqs, Profiles)

Next == run(1) \/ exec_inst(1)

Spec == Init /\ [][Next]_vars

\* Two VMs constructed identically, each run by its own owner.
TwinInit == Constructed({1, 2}, TapesUpTo(MaxTwinLen) \cup Examples \cup Wide, InputSeqs, Profiles)

TwinNext == Next \/ run(2) \/ exec_inst(2)

TwinSpec == TwinInit /\ [][TwinNext]_vars

(***************************************************************************)
(* The decoder alone: fetch_instr's first lines (src/main.rs:173-176)      *)
(* applied to a one-word tape, the opcode and modes it computes recorded   *)
(* in `executing` whether or not the opcode is known.                      *)
(***************************************************************************)
DecodeOpcodes == {0, 1, 5, 9, 10, 42, 99}

DecodeWords ==
    { s * (100 * m + o) : s \in {-1, 1}, m \in 0..MaxModePart, o \in DecodeOpcodes }

decode(self) ==
    /\ cycles[self] = 0
    /\ Printed(self)
    /\ Counted(self)
    /\ UNCHANGED <<vmFields, panic, runs, overflow_checks>>

DecodeInit == Constructed({1}, { <<w>> : w \in DecodeWords }, { <<>> }, Dev)

DecodeNext == decode(1)

DecodeSpec == DecodeInit /\ [][DecodeNext]_vars

(***************************************************************************)
(* The vocabulary of the documentation, read off the VM's state.           *)
(***************************************************************************)
Status(self) ==
    IF panic[self] # "" THEN "Faulted"
    ELSE IF halted[self] THEN "Halted"
    ELSE "Running"

FaultKind(self) ==
    CASE panic[self] = PanicInputsIndex -> "InputExhausted"
      [] panic[self] = PanicUnknownOpcode -> "UnknownOpcode"
      [] panic[self] = PanicUnknownMode -> "InvalidMode"
      [] panic[self] \in {PanicIllegalMemory, PanicJumpOut, PanicProgramIndex} -> "InvalidAddress"
      [] panic[self] \in {PanicAddOverflow, PanicMulOverflow} -> "Overflow"
      [] OTHER -> "None"

InTape(self, i) == i >= 0 /\ i < Len(program[self])

\* The word at the program counter and the raw operand words after it.
Word(self) == program[self][ip[self] + 1]
Raw(self, k) == program[self][ip[self] + k + 1]

\* This step is one cycle of self: an exec_inst call.
Cycle(self) == cycles'[self] = cycles[self] + 1

\* This step is a cycle of self that executes an instruction of the given opcodes.
CycleOf(self, opcodes) ==
    /\ Cycle(self)
    /\ InTape(self, ip[self])
    /\ opcode_of(Word(self)) \in opcodes

\* Everything the documentation calls the state of a VM.
View(self) ==
    <<program[self], ip[self], in_p[self], out_p[self], halted[self],
      inputs[self], outputs[self], panic[self], executing[self]>>

(***************************************************************************)
(* C1.  Determinism: two VMs constructed from the same tape and the same   *)
(* inputs, each run cycle by cycle, are in the same state whenever they    *)
(* have made the same number of run calls and cycles: same tape, program   *)
(* counter, cursor, outputs and status (with the same fault).              *)
(***************************************************************************)
C1_Determinism ==
    \A a \in VMs, b \in VMs :
        (runs[a] = runs[b] /\ cycles[a] = cycles[b]) => View(a) = View(b)

C1_Witness ==
    /\ VMs = {1, 2}
    /\ cycles[1] = cycles[2]
    /\ cycles[1] >= 3
    /\ in_p[1] = 1
    /\ outputs[2] # <<>>
    /\ halted[1] /\ halted[2]

(***************************************************************************)
(* C2.  As claimed: an IN cycle with the input cursor at or past the end   *)
(* of the inputs ends Faulted with kind InputExhausted and leaves the      *)
(* outputs as they were.                                                   *)
(***************************************************************************)
C2_Original ==
    [][\A self \in VMs :
        (CycleOf(self, {3}) /\ in_p[self] >= Len(inputs[self]))
            => /\ Status(self)' = "Faulted"
               /\ FaultKind(self)' = "InputExhausted"
               /\ outputs'[self] = outputs[self]]_vars

(***************************************************************************)
(* C2, amended.  An IN cycle with the input cursor at or past the end of   *)
(* the inputs ends Faulted and leaves the outputs as they were; the kind   *)
(* is InputExhausted when the operand word at pc+1 lies inside the tape,   *)
(* and InvalidAddress (the operand fetch) when it does not.                *)
(***************************************************************************)
C2_InputExhausted ==
    [][\A self \in VMs :
        (CycleOf(self, {3}) /\ in_p[self] >= Len(inputs[self]))
            => /\ Status(self)' = "Faulted"
               /\ FaultKind(self)' =
                    IF InTape(self, ip[self] + 1) THEN "InputExhausted" ELSE "InvalidAddress"
               /\ outputs'[self] = outputs[self]
               /\ in_p'[self] = in_p[self]]_vars

C2_Witness ==
    \E self \in VMs :
        /\ FaultKind(self) = "InputExhausted"
        /\ outputs[self] # <<>>
        /\ in_p[self] = Len(inputs[self])
        /\ in_p[self] >= 1

(***************************************************************************)
(* C3.  A cycle whose word at the program counter decodes to an opcode     *)
(* outside {1..8, 99} ends Faulted with kind UnknownOpcode, not Halted,    *)
(* with tape, outputs, cursor and program counter unchanged; and once a    *)
(* VM is Faulted no further step changes anything of it.                   *)
(***************************************************************************)
C3_UnknownOpcode ==
    [][\A self \in VMs :
        /\ (Cycle(self) /\ InTape(self, ip[self]) /\ opcode_of(Word(self)) \notin KnownOpcodes)
            => /\ Status(self)' = "Faulted"
               /\ FaultKind(self)' = "UnknownOpcode"
               /\ ~halted'[self]
               /\ program'[self] = program[self]
               /\ outputs'[self] = outputs[self]
               /\ in_p'[self] = in_p[self]
               /\ ip'[self] = ip[self]
        /\ Status(self) = "Faulted"
            => (View(self)' = View(self) /\ cycles'[self] = cycles[self])]_vars

C3_Witness ==
    \E self \in VMs :
        /\ FaultKind(self) = "UnknownOpcode"
        /\ cycles[self] >= 2
        /\ outputs[self] # <<>>
        /\ ~halted[self]

(***************************************************************************)
(* What a cycle touches, in the order of the source: the tape indexes it   *)
(* uses (Acc) and the places where a panic of another kind is raised if    *)
(* the cycle gets that far (Stop).  A cycle goes no further than the first *)
(* index outside the tape or the first Stop.                               *)
(***************************************************************************)
Acc(i) == [kind |-> "access", idx |-> i]
Stop(kind) == [kind |-> kind, idx |-> 0]

ModeOf(self, k) == param_modes(Word(self))[k]
RawOr0(self, k) == IF InTape(self, ip[self] + k) THEN Raw(self, k) ELSE 0

\* fetch_arg_value(k, mode): the operand word, then what the mode asks for.
OperandEvents(self, k) ==
    <<Acc(ip[self] + k)>> \o
        (IF ModeOf(self, k) = 0 THEN <<Acc(RawOr0(self, k))>>
         ELSE IF ModeOf(self, k) = 1 THEN <<>>
         ELSE <<Stop("InvalidMode")>>)

ValidMode(m) == m \in {0, 1}

\* Operand k is fetched and resolves to a value.
Resolves(self, k) ==
    /\ InTape(self, ip[self] + k)
    /\ ValidMode(ModeOf(self, k))
    /\ ModeOf(self, k) = 0 => InTape(self, Raw(self, k))

\* The resolved value of operand k.
Val(self, k) ==
    IF ModeOf(self, k) = 1 THEN Raw(self, k) ELSE program[self][Raw(self, k) + 1]

\* The result of an ADD or MUL leaves the i32 range in a build that checks it.
OverflowPanics(self) ==
    /\ overflow_checks
    /\ Resolves(self, 1)
    /\ Resolves(self, 2)
    /\ \/ opcode_of(Word(self)) = 1 /\ ~AddFits(Val(self, 1), Val(self, 2))
       \/ opcode_of(Word(self)) = 2 /\ ~MulFits(Val(self, 1), Val(self, 2))

StoreEvents(self) ==
    OperandEvents(self, 1) \o OperandEvents(self, 2)
        \o <<Acc(ip[self] + 3)>>
        \o (IF OverflowPanics(self) THEN <<Stop("Overflow")>> ELSE <<>>)
        \o <<Acc(RawOr0(self, 3))>>

Events(self) ==
    <<Acc(ip[self])>> \o
    (IF ~InTape(self, ip[self]) THEN <<>>
     ELSE CASE opcode_of(Word(self)) \in {1, 7, 8} -> StoreEvents(self)
            [] opcode_of(Word(self)) = 2 ->
                 <<Acc(ip[self] + 1), Acc(ip[self] + 2)>> \o StoreEvents(self)
            [] opcode_of(Word(self)) = 3 ->
                 <<Acc(ip[self] + 1)>>
                 \o (IF in_p[self] >= Len(inputs[self]) THEN <<Stop("InputExhausted")>> ELSE <<>>)
                 \o <<Acc(RawOr0(self, 1))>>
            [] opcode_of(Word(self)) = 4 -> <<Acc(ip[self] + 1), Acc(RawOr0(self, 1))>>
            [] opcode_of(Word(self)) \in {5, 6} -> OperandEvents(self, 1) \o OperandEvents(self, 2)
            [] opcode_of(Word(self)) = 99 -> <<>>
            [] OTHER -> <<Stop("UnknownOpcode")>>)

Ends(self, ev) == ev.kind # "access" \/ ~InTape(self, ev.idx)

\* The cycle makes an access outside the tape: its first ending event is an access.
BadAccessMade(self) ==
    \E n \in 1..Len(Events(self)) :
        /\ Events(self)[n].kind = "access"
        /\ ~InTape(self, Events(self)[n].idx)
        /\ \A j \in 1..(n - 1) : ~Ends(self, Events(self)[j])

(***************************************************************************)
(* C4.  A cycle that makes a tape access (instruction fetch, operand       *)
(* fetch, Position dereference, OUT source, destination write) at an       *)
(* index that is negative or >= the tape length ends Faulted with kind     *)
(* InvalidAddress and leaves the tape as it was; no step ever changes the  *)
(* length of the tape.                                                     *)
(***************************************************************************)
C4_InvalidAddress ==
    [][\A self \in VMs :
        /\ (Cycle(self) /\ BadAccessMade(self))
            => /\ Status(self)' = "Faulted"
               /\ FaultKind(self)' = "InvalidAddress"
               /\ program'[self] = program[self]
        /\ Len(program'[self]) = Len(program[self])]_vars

C4_Witness ==
    \E self \in VMs :
        /\ panic[self] = PanicIllegalMemory
        /\ cycles[self] >= 2
        /\ executing[self].opcode \in {1, 2, 7, 8}
        /\ executing[self].ip = ip[self]
        /\ executing[self].ip > 0

(***************************************************************************)
(* The decode the documentation states, with the mathematical div and mod  *)
(* (rounding toward minus infinity, remainder never negative).             *)
(***************************************************************************)
\* 10^(k-1) for the operand positions k = 1, 2, 3.
Pow10(k) == CASE k = 1 -> 1 [] k = 2 -> 10 [] k = 3 -> 100

DocOpcode(w) == w % 100
DocMode(w, k) == ((w \div 100) \div Pow10(k)) % 10

Decoded(self) == cycles[self] = 1 /\ executing[self] # NoLine

(***************************************************************************)
(* C5.  As claimed: for every instruction word w, negative words and       *)
(* words of more than five digits included, the decoder yields             *)
(* opcode = w mod 100 and mode(k) = ((w div 100) div 10^(k-1)) mod 10.     *)
(***************************************************************************)
C5_Original ==
    \A self \in VMs :
        Decoded(self) =>
            /\ executing[self].opcode = DocOpcode(program[self][1])
            /\ \A k \in 1..3 : executing[self].modes[k] = DocMode(program[self][1], k)

(***************************************************************************)
(* C5, amended.  For every instruction word w >= 0 the decoder yields      *)
(* opcode = w mod 100 and mode(k) = ((w div 100) div 10^(k-1)) mod 10, and *)
(* digits above the third mode digit affect neither; for w < 0 it yields   *)
(* the negated opcode and modes of -w (division truncates toward zero), so *)
(* the opcode of a negative word is never positive.                        *)
(***************************************************************************)
C5_Decode ==
    \A self \in VMs :
        Decoded(self) =>
            LET w == program[self][1]
                a == IF w >= 0 THEN w ELSE -w
                sign == IF w >= 0 THEN 1 ELSE -1
            IN  /\ executing[self].opcode = sign * DocOpcode(a)
                /\ \A k \in 1..3 : executing[self].modes[k] = sign * DocMode(a, k)
                /\ executing[self].opcode = sign * DocOpcode(a % 100000)
                /\ \A k \in 1..3 : executing[self].modes[k] = sign * DocMode(a % 100000, k)

C5_Witness ==
    \E self \in VMs :
        /\ Decoded(self)
        /\ program[self][1] < -100000
        /\ executing[self].opcode = -5
        /\ executing[self].modes = <<-1, 0, -1>>

(***************************************************************************)
(* Which operands a handler resolves by mode, and when that resolution     *)
(* meets a mode that is neither 0 nor 1 before anything else fails.        *)
(***************************************************************************)
ModeOpcodes == {1, 2, 5, 6, 7, 8}

Arity(opcode) ==
    CASE opcode \in {1, 2, 7, 8} -> 3
      [] opcode \in {3, 4} -> 1
      [] opcode \in {5, 6} -> 2
      [] OTHER -> 0

\* The fetches a handler makes before it looks at the mode of operand 1.
BeforeModes(self) ==
    /\ InTape(self, ip[self] + 1)
    /\ opcode_of(Word(self)) = 2 => InTape(self, ip[self] + 2)

ModeFault(self) ==
    \/ BeforeModes(self) /\ ~ValidMode(ModeOf(self, 1))
    \/ /\ BeforeModes(self)
       /\ Resolves(self, 1)
       /\ InTape(self, ip[self] + 2)
       /\ ~ValidMode(ModeOf(self, 2))

(***************************************************************************)
(* C6.  As claimed: a cycle of a known opcode with a decoded mode that is  *)
(* neither 0 nor 1 ends in an InvalidMode fault; and a Position-mode       *)
(* operand whose raw value is negative ends the cycle in a fault.          *)
(***************************************************************************)
C6_Original ==
    [][\A self \in VMs :
        /\ (CycleOf(self, KnownOpcodes) /\ \E k \in 1..3 : ~ValidMode(ModeOf(self, k)))
            => (Status(self)' = "Faulted" /\ FaultKind(self)' = "InvalidMode")
        /\ \A k \in 1..3 :
            (/\ CycleOf(self, KnownOpcodes)
             /\ k <= Arity(opcode_of(Word(self)))
             /\ InTape(self, ip[self] + k)
             /\ ModeOf(self, k) = 0
             /\ Raw(self, k) < 0)
                => Status(self)' = "Faulted"]_vars

(***************************************************************************)
(* C6, amended.  Only ADD, MUL, LT, EQ, JT and JF look at modes, and only  *)
(* at those of operands 1 and 2.  When one of these two modes is neither   *)
(* 0 nor 1 the cycle ends in a fault: InvalidMode when the handler reaches *)
(* that mode (the operand words fetched before it lie inside the tape and, *)
(* for operand 2, operand 1 resolved), else the InvalidAddress fault met   *)
(* before it.  The mode of a destination operand and the modes of IN, OUT  *)
(* and HALT never cause a fault.  An operand of mode digit 0 whose raw     *)
(* value is negative ends the cycle in a fault.                            *)
(***************************************************************************)
C6_InvalidMode ==
    [][\A self \in VMs :
        /\ CycleOf(self, ModeOpcodes)
            => /\ FaultKind(self)' = "InvalidMode" <=> ModeFault(self)
               /\ (~ValidMode(ModeOf(self, 1)) \/ ~ValidMode(ModeOf(self, 2)))
                    => /\ Status(self)' = "Faulted"
                       /\ FaultKind(self)' \in {"InvalidMode", "InvalidAddress"}
        /\ CycleOf(self, KnownOpcodes \ ModeOpcodes) => FaultKind(self)' # "InvalidMode"
        /\ \A k \in 1..3 :
            (/\ CycleOf(self, KnownOpcodes)
             /\ k <= Arity(opcode_of(Word(self)))
             /\ InTape(self, ip[self] + k)
             /\ ModeOf(self, k) = 0
             /\ Raw(self, k) < 0)
                => Status(self)' = "Faulted"]_vars

C6_Witness ==
    \E self \in VMs :
        /\ FaultKind(self) = "InvalidMode"
        /\ executing[self].ip = ip[self]
        /\ executing[self].opcode \in {5, 6}
        /\ executing[self].modes[1] \in {0, 1}
        /\ executing[self].modes[2] = 2

(***************************************************************************)
(* C7.  As claimed: a JT or JF cycle that takes its jump to a target that  *)
(* is negative or >= the tape length ends that same cycle in an            *)
(* InvalidAddress fault, so a jump never leaves the program counter        *)
(* outside the tape with the status Running.                               *)
(***************************************************************************)
JumpTaken(self) ==
    /\ Resolves(self, 1)
    /\ Resolves(self, 2)
    /\ IF opcode_of(Word(self)) = 5 THEN Val(self, 1) # 0 ELSE Val(self, 1) = 0

C7_Original ==
    [][\A self \in VMs :
        (CycleOf(self, {5, 6}) /\ JumpTaken(self) /\ ~InTape(self, Val(self, 2)))
            => /\ Status(self)' = "Faulted"
               /\ FaultKind(self)' = "InvalidAddress"
               /\ ip'[self] = ip[self]]_vars

(***************************************************************************)
(* C8.  The writing instructions write to Tape[raw operand word] whatever  *)
(* mode digit is declared for the destination: ADD, MUL, LT, EQ write      *)
(* their result to the cell named by operand word 3, IN writes the next    *)
(* input to the cell named by operand word 1, no other cell changes, and   *)
(* whether the cycle faults does not depend on the destination's digit.    *)
(***************************************************************************)
StoreOk(self) ==
    /\ Resolves(self, 1)
    /\ Resolves(self, 2)
    /\ InTape(self, ip[self] + 3)
    /\ ~OverflowPanics(self)
    /\ InTape(self, Raw(self, 3))

StoreResult(self) ==
    CASE opcode_of(Word(self)) = 1 -> wrapping_add(Val(self, 1), Val(self, 2))
      [] opcode_of(Word(self)) = 2 -> wrapping_mul(Val(self, 1), Val(self, 2))
      [] opcode_of(Word(self)) = 7 -> IF Val(self, 1) < Val(self, 2) THEN 1 ELSE 0
      [] opcode_of(Word(self)) = 8 -> IF Val(self, 1) = Val(self, 2) THEN 1 ELSE 0

InputOk(self) ==
    /\ InTape(self, ip[self] + 1)
    /\ in_p[self] < Len(inputs[self])
    /\ InTape(self, Raw(self, 1))

C8_Destination ==
    [][\A self \in VMs :
        /\ CycleOf(self, {1, 2, 7, 8})
            => /\ Status(self)' = "Faulted" <=> ~StoreOk(self)
               /\ StoreOk(self) =>
                    program'[self] =
                        [program[self] EXCEPT ![Raw(self, 3) + 1] = StoreResult(self)]
        /\ CycleOf(self, {3})
            => /\ Status(self)' = "Faulted" <=> ~InputOk(self)
               /\ InputOk(self) =>
                    program'[self] =
                        [program[self] EXCEPT ![Raw(self, 1) + 1] = inputs[self][in_p[self] + 1]]
      ]_vars

\* An ADD, MUL, LT or EQ whose destination digit is not 0 has just written.
C8_Witness ==
    \E self \in VMs :
        /\ Status(self) = "Running"
        /\ executing[self].opcode \in {1, 2, 7, 8}
        /\ executing[self].modes[3] \in {1, 2}
        /\ ip[self] = executing[self].ip + 4
        /\ cycles[self] = 1

(***************************************************************************)
(* C9.  An OUT cycle appends Tape[raw operand 1] to the outputs and        *)
(* advances the program counter by 2 whatever mode digit is declared for   *)
(* operand 1 (word 104 outputs Tape[a], not a, as word 4 does); it changes *)
(* neither the tape nor the input cursor, and it faults exactly when the   *)
(* operand word or the cell it names lies outside the tape.                *)
(***************************************************************************)
OutputOk(self) ==
    /\ InTape(self, ip[self] + 1)
    /\ InTape(self, Raw(self, 1))

C9_Output ==
    [][\A self \in VMs :
        CycleOf(self, {4})
            => /\ Status(self)' = "Faulted" <=> ~OutputOk(self)
               /\ OutputOk(self) =>
                    /\ outputs'[self] = Append(outputs[self], program[self][Raw(self, 1) + 1])
                    /\ out_p'[self] = out_p[self] + 1
                    /\ ip'[self] = ip[self] + 2
                    /\ program'[self] = program[self]
                    /\ in_p'[self] = in_p[self]
                    /\ Status(self)' = "Running"]_vars

\* Word 104 has just output Tape[a], which differs from a.
C9_Witness ==
    \E self \in VMs :
        /\ Status(self) = "Running"
        /\ executing[self].opcode = 4
        /\ executing[self].modes[1] = 1
        /\ ip[self] = executing[self].ip + 2
        /\ outputs[self] # <<>>
        /\ outputs[self][Len(outputs[self])] = program[self][program[self][executing[self].ip + 2] + 1]
        /\ outputs[self][Len(outputs[self])] # program[self][executing[self].ip + 2]

(***************************************************************************)
(* C10.  As claimed: Halted and Faulted are terminal.  A cycle executes    *)
(* only while the status is Running; HALT sets the status to Halted and    *)
(* changes nothing else; and once the status is Halted or Faulted no later *)
(* cycle or run call changes status, tape, program counter, input cursor   *)
(* or outputs.                                                             *)
(***************************************************************************)
C10_Original ==
    [][\A self \in VMs :
        /\ Cycle(self) => Status(self) = "Running"
        /\ CycleOf(self, {99})
            => /\ Status(self)' = "Halted"
               /\ program'[self] = program[self]
               /\ ip'[self] = ip[self]
               /\ in_p'[self] = in_p[self]
               /\ outputs'[self] = outputs[self]
        /\ Status(self) \in {"Halted", "Faulted"}
            => /\ Status(self)' = Status(self)
               /\ program'[self] = program[self]
               /\ ip'[self] = ip[self]
               /\ in_p'[self] = in_p[self]
               /\ outputs'[self] = outputs[self]]_vars

(***************************************************************************)
(* A VM in the middle of a documented example: its tape, program counter,  *)
(* input cursor and outputs.                                               *)
(***************************************************************************)
At(self, tape, pc, cursor, outs) ==
    /\ program[self] = tape
    /\ ip[self] = pc
    /\ in_p[self] = cursor
    /\ outputs[self] = outs

EchoTape(n) == <<n, 0, 4, 0, 99>>

(***************************************************************************)
(* C11.  The program [3,0,4,0,99] constructed with the inputs [n] runs, for *)
(* every n, through three cycles: IN stores n at cell 0 and moves the      *)
(* cursor to 1, OUT appends Tape[0] = n to the outputs, HALT ends the run. *)
(* It ends Halted with outputs [n], tape [n,0,4,0,99] and input cursor 1.  *)
(***************************************************************************)
C11_Echo ==
    [][\A self \in VMs :
        (Cycle(self) /\ Len(inputs[self]) = 1) =>
            LET n == inputs[self][1]
            IN  /\ At(self, Echo, 0, 0, <<>>)
                    => /\ At(self, EchoTape(n), 2, 1, <<>>)'
                       /\ Status(self)' = "Running"
                /\ At(self, EchoTape(n), 2, 1, <<>>)
                    => /\ At(self, EchoTape(n), 4, 1, <<n>>)'
                       /\ Status(self)' = "Running"
                /\ At(self, EchoTape(n), 4, 1, <<n>>)
                    => /\ At(self, EchoTape(n), 4, 1, <<n>>)'
                       /\ Status(self)' = "Halted"
                       /\ cycles'[self] = 3]_vars

\* The echo program has halted on an input that is itself an instruction word.
C11_Witness ==
    \E self \in VMs :
        /\ Status(self) = "Halted"
        /\ cycles[self] = 3
        /\ inputs[self] = <<1105>>
        /\ At(self, EchoTape(1105), 4, 1, <<1105>>)

(***************************************************************************)
(* C12.  The program [1002,4,3,4,33] halts after exactly two cycles with   *)
(* the tape [1002,4,3,4,99]: the first cycle is a MUL with modes (0,1,0)   *)
(* that multiplies Tape[4] = 33 by the literal 3 and stores 99 at cell 4,  *)
(* the second fetches that freshly written 99 and executes it as HALT.     *)
(***************************************************************************)
MixedTape == <<1002, 4, 3, 4, 33>>
MixedDone == <<1002, 4, 3, 4, 99>>

C12_Mixed ==
    [][\A self \in VMs :
        Cycle(self) =>
            /\ At(self, MixedTape, 0, 0, <<>>)
                => /\ At(self, MixedDone, 4, 0, <<>>)'
                   /\ Status(self)' = "Running"
                   /\ executing'[self] = [opcode |-> 2, ip |-> 0, modes |-> <<0, 1, 0>>]
                   /\ cycles'[self] = 1
            /\ At(self, MixedDone, 4, 0, <<>>)
                => /\ At(self, MixedDone, 4, 0, <<>>)'
                   /\ Status(self)' = "Halted"
                   /\ executing'[self].opcode = 99
                   /\ cycles'[self] = 2]_vars

C12_Witness ==
    \E self \in VMs :
        /\ Status(self) = "Halted"
        /\ cycles[self] = 2
        /\ At(self, MixedDone, 4, 0, <<>>)
        /\ executing[self] = [opcode |-> 99, ip |-> 4, modes |-> <<0, 0, 0>>]

(***************************************************************************)
(* The arithmetic of the documentation, over the integers: r, a value of   *)
(* a tape cell, is the sum (product) of a and b.  A cell holds an i32, so  *)
(* it cannot be a sum or product that lies outside the i32 range.          *)
(***************************************************************************)
SumIs(r, a, b) == AddFits(a, b) /\ r = a + b
ProductIs(r, a, b) == MulFits(a, b) /\ r = a * b

\* r is what the documentation says the instruction at the program counter stores.
DocResultIs(self, r) ==
    CASE opcode_of(Word(self)) = 1 -> SumIs(r, Val(self, 1), Val(self, 2))
      [] opcode_of(Word(self)) = 2 -> ProductIs(r, Val(self, 1), Val(self, 2))
      [] opcode_of(Word(self)) = 7 -> r = IF Val(self, 1) < Val(self, 2) THEN 1 ELSE 0
      [] opcode_of(Word(self)) = 8 -> r = IF Val(self, 1) = Val(self, 2) THEN 1 ELSE 0

\* The result lies in the i32 range.
ResultFits(self) ==
    CASE opcode_of(Word(self)) = 1 -> AddFits(Val(self, 1), Val(self, 2))
      [] opcode_of(Word(self)) = 2 -> MulFits(Val(self, 1), Val(self, 2))
      [] OTHER -> TRUE

\* Nothing but cell d of the tape, and the program counter, changes; the pc advances by n.
OnlyCell(self, d, n) ==
    /\ Len(program'[self]) = Len(program[self])
    /\ \A i \in 0..(Len(program[self]) - 1) :
            i # d => program'[self][i + 1] = program[self][i + 1]
    /\ outputs'[self] = outputs[self]
    /\ out_p'[self] = out_p[self]
    /\ in_p'[self] = in_p[self]
    /\ ip'[self] = ip[self] + n

NothingChanged(self) ==
    /\ program'[self] = program[self]
    /\ outputs'[self] = outputs[self]
    /\ in_p'[self] = in_p[self]
    /\ ip'[self] = ip[self]

(***************************************************************************)
(* C13.  As claimed: a non-faulting ADD, MUL, LT or EQ cycle with resolved *)
(* operand values v1, v2 (read from the tape before the write) and raw     *)
(* third operand d writes v1+v2, v1*v2, v1<v2, v1=v2 to Tape[d], changes   *)
(* no other cell, nor the length, the outputs or the input cursor, and     *)
(* advances the program counter by 4.                                      *)
(***************************************************************************)
C13_Original ==
    [][\A self \in VMs :
        (CycleOf(self, {1, 2, 7, 8}) /\ Status(self)' # "Faulted")
            => /\ OnlyCell(self, Raw(self, 3), 4)
               /\ DocResultIs(self, program'[self][Raw(self, 3) + 1])]_vars

(***************************************************************************)
(* C13, amended.  The same, when the sum or product lies in the i32 range  *)
(* (LT and EQ always write 1 or 0).  When it does not, a build with        *)
(* overflow checks panics at the arithmetic, before the destination is     *)
(* looked at: the cycle faults and changes nothing; a build without them   *)
(* stores the result wrapped modulo 2^32 and goes on as above.  And        *)
(* [1,0,0,0,99] halts with tape [2,0,0,0,99], [2,3,0,3,99] with            *)
(* [2,3,0,6,99].                                                           *)
(***************************************************************************)
C13_Store ==
    [][\A self \in VMs :
        /\ (CycleOf(self, {1, 2, 7, 8}) /\ Status(self)' # "Faulted")
            => /\ OnlyCell(self, Raw(self, 3), 4)
               /\ Status(self)' = "Running"
               /\ ResultFits(self) => DocResultIs(self, program'[self][Raw(self, 3) + 1])
               /\ ~ResultFits(self)
                    => /\ ~overflow_checks
                       /\ program'[self][Raw(self, 3) + 1] = StoreResult(self)
        /\ (/\ CycleOf(self, {1, 2})
            /\ Resolves(self, 1) /\ Resolves(self, 2) /\ InTape(self, ip[self] + 3)
            /\ ~ResultFits(self)
            /\ overflow_checks)
            => /\ Status(self)' = "Faulted"
               /\ FaultKind(self)' = "Overflow"
               /\ NothingChanged(self)
        /\ Cycle(self) =>
            /\ At(self, <<1, 0, 0, 0, 99>>, 0, 0, <<>>)
                => At(self, <<2, 0, 0, 0, 99>>, 4, 0, <<>>)' /\ Status(self)' = "Running"
            /\ At(self, <<2, 0, 0, 0, 99>>, 4, 0, <<>>)
                => At(self, <<2, 0, 0, 0, 99>>, 4, 0, <<>>)' /\ Status(self)' = "Halted"
            /\ At(self, <<2, 3, 0, 3, 99>>, 0, 0, <<>>)
                => At(self, <<2, 3, 0, 6, 99>>, 4, 0, <<>>)' /\ Status(self)' = "Running"
            /\ At(self, <<2, 3, 0, 6, 99>>, 4, 0, <<>>)
                => At(self, <<2, 3, 0, 6, 99>>, 4, 0, <<>>)' /\ Status(self)' = "Halted"
      ]_vars

\* Without overflow checks 46341 * 46341 = 2147488281 has been stored as
\* 2147488281 - 2^32, and the run has gone on to halt.
C13_Witness ==
    \E self \in VMs :
        /\ ~overflow_checks
        /\ Status(self) = "Halted"
        /\ cycles[self] = 2
        /\ At(self, <<-2147479015, 46341, 46341, 0, 99>>, 4, 0, <<>>)

(***************************************************************************)
(* C14.  As claimed: inputs are consumed strictly in order.  The input     *)
(* cursor starts at 0 and counts the completed IN cycles: it changes only  *)
(* in an IN cycle that does not fault, by exactly one, so the k-th such    *)
(* cycle finds it at k-1; that cycle writes inputs[k-1] to Tape[raw        *)
(* operand 1], advances the program counter by 2 and changes neither the   *)
(* outputs nor another cell; and the cursor never exceeds the number of    *)
(* inputs.                                                                 *)
(***************************************************************************)
C14_Original ==
    [][\A self \in VMs :
        /\ (CycleOf(self, {3}) /\ Status(self)' # "Faulted")
            => /\ in_p[self] < Len(inputs[self])
               /\ program'[self] =
                    [program[self] EXCEPT ![Raw(self, 1) + 1] = inputs[self][in_p[self] + 1]]
               /\ in_p'[self] = in_p[self] + 1
               /\ ip'[self] = ip[self] + 2
               /\ outputs'[self] = outputs[self]
        /\ in_p'[self] # in_p[self]
            => /\ CycleOf(self, {3})
               /\ Status(self)' # "Faulted"
               /\ in_p'[self] = in_p[self] + 1
        /\ in_p'[self] <= Len(inputs'[self])]_vars

(***************************************************************************)
(* Jumps.  The test of a JT or JF cycle whose first operand resolves.      *)
(***************************************************************************)
TestHolds(self) ==
    IF opcode_of(Word(self)) = 5 THEN Val(self, 1) # 0 ELSE Val(self, 1) = 0

\* Nothing but the program counter changes, and the status stays Running.
OnlyPc(self) ==
    /\ program'[self] = program[self]
    /\ outputs'[self] = outputs[self]
    /\ out_p'[self] = out_p[self]
    /\ in_p'[self] = in_p[self]
    /\ Status(self)' = "Running"

(***************************************************************************)
(* C15.  A JT cycle whose resolved first operand is non-zero, and a JF     *)
(* cycle whose resolved first operand is zero, sets the program counter    *)
(* to the resolved value of operand 2 (the literal under mode 1,           *)
(* Tape[raw] under mode 0) when that target lies in [0, len), and changes  *)
(* nothing else: tape, outputs and cursor stay, the status stays Running.  *)
(***************************************************************************)
C15_Taken ==
    [][\A self \in VMs :
        (/\ CycleOf(self, {5, 6})
         /\ Resolves(self, 1) /\ Resolves(self, 2)
         /\ TestHolds(self)
         /\ InTape(self, Val(self, 2)))
            => /\ ip'[self] = Val(self, 2)
               /\ OnlyPc(self)]_vars

\* main's third commented program on input 0: the JF at 2 finds Tape[12] = 0
\* and has jumped to Tape[15] = 9.
C15_Witness ==
    \E self \in VMs :
        /\ Status(self) = "Running"
        /\ executing[self] = [opcode |-> 6, ip |-> 2, modes |-> <<0, 0, 0>>]
        /\ Len(program[self]) = 16
        /\ program[self][13] = 0
        /\ ip[self] = 9

(***************************************************************************)
(* C16.  As claimed: a JT cycle whose resolved first operand is zero, and  *)
(* a JF cycle whose resolved first operand is non-zero, advances the       *)
(* program counter by exactly 3, stays Running and changes nothing else,   *)
(* whatever the second operand word and its mode are: the target is not    *)
(* consulted, so a second operand that does not resolve cannot fault it.   *)
(***************************************************************************)
C16_Original ==
    [][\A self \in VMs :
        (/\ CycleOf(self, {5, 6})
         /\ Resolves(self, 1)
         /\ ~TestHolds(self)
         /\ InTape(self, ip[self] + 2))
            => /\ ip'[self] = ip[self] + 3
               /\ OnlyPc(self)]_vars

(***************************************************************************)
(* C17.  There is no step budget.  The tape [1105,1,0] (JT, literal        *)
(* condition 1, literal target 0) is never Halted nor Faulted: every cycle *)
(* at program counter 0 leaves the tape, the outputs, the cursor and the   *)
(* program counter as they were, with the status Running, however many     *)
(* cycles came before; and so does every second cycle of                   *)
(* [1106,0,3,1105,1,0], whose JF at 0 and JT at 3 jump to each other.      *)
(***************************************************************************)
Spin == <<1105, 1, 0>>
PingPong == <<1106, 0, 3, 1105, 1, 0>>

C18_Original ==
    [][\A self \in VMs :
        (Cycle(self) /\ Status(self)' = "Faulted") => NothingChanged(self)]_vars

(***************************************************************************)
(* C19.  The outputs are append-only: the outputs before a step are a      *)
(* prefix of the outputs after it, they grow only in an OUT cycle and then *)
(* by exactly one element, and out_p always equals their length.           *)
(***************************************************************************)
IsPrefix(s, t) == Len(s) <= Len(t) /\ SubSeq(t, 1, Len(s)) = s

C19_AppendOnly ==
    [][\A self \in VMs :
        /\ out_p[self] = Len(outputs[self])
        /\ out_p'[self] = Len(outputs'[self])
        /\ IsPrefix(outputs[self], outputs'[self])
        /\ outputs'[self] # outputs[self]
            => /\ CycleOf(self, {4})
               /\ Len(outputs'[self]) = Len(outputs[self]) + 1]_vars

\* Two OUT cycles have appended two different values, in order.
C19_Witness ==
    \E self \in VMs :
        /\ Len(outputs[self]) = 2
        /\ out_p[self] = 2
        /\ outputs[self][1] # outputs[self][2]
        /\ executing[self].opcode = 4

(***************************************************************************)
(* C20.  In every cycle that stays Running and is not a taken jump the     *)
(* program counter strictly increases: by 4 for ADD, MUL, LT, EQ, by 2     *)
(* for IN and OUT, by 3 for a JT or JF that does not jump.  Hence, as long *)
(* as no jump has been taken, 2 * cycles <= pc <= len, and a run in which  *)
(* no jump is ever taken leaves Running (Halted or Faulted) in a cycle     *)
(* that is at most the len-th.                                             *)
(***************************************************************************)
\* This cycle executes goto: a JT or JF whose test holds, with a target goto accepts.
TakenNow(self) ==
    /\ InTape(self, ip[self])
    /\ opcode_of(Word(self)) \in {5, 6}
    /\ JumpTaken(self)
    /\ Val(self, 2) >= 0

\* The instruction length of the documentation.
Advance(opcode) ==
    CASE opcode \in {1, 2, 7, 8} -> 4
      [] opcode \in {3, 4} -> 2
      [] opcode \in {5, 6} -> 3

\* Where a run that has taken no jump can be after cycles[self] cycles.
Straight(self) ==
    /\ Status(self) = "Running"
    /\ 2 * cycles[self] <= ip[self]
    /\ ip[self] <= Len(program[self])

C20_Progress ==
    [][\A self \in VMs :
        /\ (Cycle(self) /\ Status(self)' = "Running" /\ ~TakenNow(self))
            => /\ ip'[self] = ip[self] + Advance(opcode_of(Word(self)))
               /\ ip'[self] > ip[self]
        /\ (cycles[self] = 0 /\ runs[self] = 1) => Straight(self)
        /\ (Cycle(self) /\ Straight(self) /\ ~TakenNow(self))
            => /\ Status(self)' = "Running" => Straight(self)'
               /\ Status(self)' # "Running" => cycles'[self] <= Len(program[self])]_vars

\* A run without a jump has left Running in exactly its len-th cycle.
C20_Witness ==
    \E self \in VMs :
        /\ Status(self) = "Faulted"
        /\ cycles[self] = Len(program[self])
        /\ cycles[self] >= 2
        /\ 2 * (cycles[self] - 1) = ip[self]
        /\ executing[self].opcode \in {3, 4}

====
